---- MODULE Spec2Model ----
(***************************************************************************)
(* Verification model of the gemx-auth backend: the wallet ledger          *)
(* (WalletService), the idempotency gate in front of the service-facing    *)
(* credit/debit endpoints, the referral graph (UserService) and the        *)
(* referral code codec.                                                    *)
(*                                                                         *)
(* The specifications share the variables below:                           *)
(*   Spec          callers invoke WalletService.creditWallet / debitWallet *)
(*                 concurrently (one step per storage round trip);         *)
(*   SpecGate      HTTP requests run through ensureIdempotency,            *)
(*                 validateBody and InternalWalletController;              *)
(*   SpecGateLive  SpecGate with the server, redis expiry and retrying     *)
(*                 callers making progress;                                *)
(*   SpecRef       setReferrer / updateReferrers / createUsers on the      *)
(*                 referrer graph, concurrently;                           *)
(*   SpecCycle     one setReferrer or updateReferrers call on any acyclic  *)
(*                 referrer graph;                                         *)
(*   SpecHook      setReferrer calls and the webhook requests they send;   *)
(*   SpecCodec     generateReferralCode / decodeReferralCode as functions. *)
(***************************************************************************)
EXTENDS Integers, Sequences, FiniteSets, TLC

VARIABLES
    wallets,    \* wallet rows: (userId, currency) -> [id, balance]; id = 0: no row
    txns,       \* wallet_transactions rows in insertion order
    call,       \* one WalletService invocation per caller: position and arguments
    cache,      \* redis idempotency:<key> -> cached response (NoResult: absent)
    lock,       \* redis lock:<key>: 0 absent, else present (the request that set it)
    ttlExpired, \* history: some lock key has expired by TTL
    req,        \* one HTTP request per slot of the service-facing wallet API
    codec,      \* one evaluation of the referral code codec: input, position, output
    nUsers,     \* users table: the ids 1..nUsers exist (autoincrement, no delete)
    referrer,   \* users.referrerId by user id; 0 is null
    task,       \* one UserService invocation per slot: position and locals
    hooks       \* webhook requests sent: event, data, subscriber URL, outcome

walletVars == <<wallets, txns, call>>

gateVars == <<cache, lock, ttlExpired, req>>

codecVars == <<codec>>

refVars == <<nUsers, referrer, task, hooks>>

vars == <<wallets, txns, call, cache, lock, ttlExpired, req, codec,
          nUsers, referrer, task, hooks>>

-----------------------------------------------------------------------------
(* Bounds *)

NumCallers == 3
MaxAmount == 2
NumReqs == 2
MaxId == 150
MaxCodeLen == 3
MaxUsers == 4
NumTasks == 2
MaxBatch == 2

(* Universe of the wallet rows the callers address *)
WalletUsers == {1, 2}
Currencies == {"points", "usdt", "gap"}

Callers == 1..NumCallers
Reqs == 1..NumReqs
Amounts == {1, MaxAmount}
WalletKeys == WalletUsers \X Currencies

-----------------------------------------------------------------------------
(* Wallet ledger: rows *)

NoWallet == [id |-> 0, balance |-> 0]

WalletExists(k) == wallets[k].id # 0

NextWalletId == Cardinality({k \in WalletKeys : WalletExists(k)}) + 1

(* out: the value a read returned *)
IdleCall == [pc |-> "idle", op |-> "none", key |-> <<1, "points">>, amount |-> 0,
             service |-> "", error |-> "none", out |-> <<>>]

WalletInit ==
    /\ wallets = [k \in WalletKeys |-> NoWallet]
    /\ txns = <<>>
    /\ call = [c \in Callers |-> IdleCall]

RECURSIVE SumAmounts(_, _)
SumAmounts(log, wid) ==
    IF log = <<>> THEN 0
    ELSE (IF Head(log).walletId = wid THEN Head(log).amount ELSE 0)
         + SumAmounts(Tail(log), wid)

(* WalletService.creditWallet / debitWallet take serviceName as an optional
   argument: "" stands for an absent one (falsy in the source). *)
ServiceNames == {"", "academy-service"}

InternalNotes(serviceName) ==
    IF serviceName # "" THEN <<"via", serviceName>> ELSE <<>>

(* referenceId as stored: `${serviceName}:${referenceId}` with a service
   name, else the caller's referenceId; every call passes the reference "ref" *)
ReferenceId(serviceName) ==
    IF serviceName # "" THEN <<serviceName, ":", "ref">> ELSE <<"ref">>

(* The invocation has returned (error = "none") or thrown: only the operation
   and its outcome remain. *)
Returned(op, error) ==
    [IdleCall EXCEPT !.pc = IF error = "none" THEN "ok" ELSE "failed",
                     !.op = op, !.error = error]

(* debitWallet has thrown NotFoundError or BadRequestError for the wallet
   and amount it was called with *)
Thrown(k, amount, error) ==
    [Returned("debit", error) EXCEPT !.key = k, !.amount = amount]

(* An upsert whose create branch opens the row empty *)
UpsertWalletEmpty(k, amount) ==
    IF WalletExists(k)
    THEN [wallets EXCEPT ![k].balance = @ + amount]
    ELSE [wallets EXCEPT ![k] = [id |-> NextWalletId, balance |-> 0]]

(* tx.wallet.upsert: create the row with balance = amount, or increment *)
UpsertWallet(k, amount) ==
    IF WalletExists(k)
    THEN [wallets EXCEPT ![k].balance = @ + amount]
    ELSE [wallets EXCEPT ![k] = [id |-> NextWalletId, balance |-> amount]]

CreditRecord(walletId, amount, serviceName) ==
    [id |-> Len(txns) + 1, walletId |-> walletId, type |-> "CREDIT",
     amount |-> amount, internalNotes |-> InternalNotes(serviceName),
     referenceId |-> ReferenceId(serviceName)]

DebitRecordUnsigned(walletId, amount, serviceName) ==
    [id |-> Len(txns) + 1, walletId |-> walletId, type |-> "DEBIT",
     amount |-> amount, internalNotes |-> InternalNotes(serviceName),
     referenceId |-> ReferenceId(serviceName)]

DebitRecord(walletId, amount, serviceName) ==
    [id |-> Len(txns) + 1, walletId |-> walletId, type |-> "DEBIT",
     amount |-> 0 - amount, internalNotes |-> InternalNotes(serviceName),
     referenceId |-> ReferenceId(serviceName)]

(* The body of creditWallet's prisma.$transaction, committed: upsert and
   transaction row together. *)
CreditTx(k, amount, serviceName) ==
    /\ wallets' = UpsertWallet(k, amount)
    /\ txns' = Append(txns, CreditRecord(wallets'[k].id, amount, serviceName))

(* findUnique and the existence check alone *)
DebitCheckWithoutBalance(k, amount) ==
    IF wallets[k].id = 0 THEN "NotFound" ELSE "none"

(* debitWallet's findUnique and the two checks on the row it returned *)
DebitCheck(k, amount) ==
    IF wallets[k].id = 0 THEN "NotFound"
    ELSE IF wallets[k].balance < amount THEN "InsufficientBalance"
    ELSE "none"

(* An update whose where clause names the user only *)
DebitTxAllCurrencies(k, amount, serviceName) ==
    /\ wallets' = [j \in WalletKeys |->
                     IF j[1] = k[1] /\ WalletExists(j)
                     THEN [wallets[j] EXCEPT !.balance = @ - amount]
                     ELSE wallets[j]]
    /\ txns' = Append(txns, DebitRecord(wallets[k].id, amount, serviceName))

(* debitWallet's update { decrement } and create, committed: the decrement
   applies to the row as it is now, not as it was read. *)
DebitTx(k, amount, serviceName) ==
    /\ wallets' = [wallets EXCEPT ![k].balance = @ - amount]
    /\ txns' = Append(txns, DebitRecord(wallets[k].id, amount, serviceName))

(* creditWallet(userId, currency, amount, _, _, serviceName) *)
CreditCommit(c) ==
    /\ call[c].pc = "idle"
    /\ \E k \in WalletKeys, a \in Amounts, s \in ServiceNames : CreditTx(k, a, s)
    /\ call' = [call EXCEPT ![c] = Returned("credit", "none")]
    /\ UNCHANGED <<gateVars, codecVars, refVars>>

(* debitWallet(userId, currency, amount, _, _, serviceName), first storage
   round trip: tx.wallet.findUnique and the two checks on the row it returned. *)
DebitRead(c) ==
    /\ call[c].pc = "idle"
    /\ \E k \in WalletKeys, a \in Amounts, s \in ServiceNames :
         call' = [call EXCEPT ![c] =
                    IF DebitCheck(k, a) # "none" THEN Thrown(k, a, DebitCheck(k, a))
                    ELSE [IdleCall EXCEPT !.pc = "debit_write", !.op = "debit",
                                          !.key = k, !.amount = a, !.service = s]]
    /\ UNCHANGED <<wallets, txns>>
    /\ UNCHANGED <<gateVars, codecVars, refVars>>

(* debitWallet, second part: update + create + commit *)
DebitCommit(c) ==
    /\ call[c].pc = "debit_write"
    /\ DebitTx(call[c].key, call[c].amount, call[c].service)
    /\ call' = [call EXCEPT ![c] = Returned("debit", "none")]
    /\ UNCHANGED <<gateVars, codecVars, refVars>>

(* A storage failure inside prisma.$transaction rolls the whole unit back:
   a credit before its commit, or a debit after its read. *)
TxAbort(c) ==
    /\ call[c].pc \in {"idle", "debit_write"}
    /\ call' = [call EXCEPT ![c] =
                  Returned(IF call[c].pc = "idle" THEN "credit" ELSE "debit",
                           "InternalError")]
    /\ UNCHANGED <<wallets, txns>>
    /\ UNCHANGED <<gateVars, codecVars, refVars>>

-----------------------------------------------------------------------------
(* Wallet ledger: read projections *)

(* The ids of the wallets of userId, of one currency if currency # "" *)
WalletIdsOf(userId, currency) ==
    {wallets[k].id : k \in {j \in WalletKeys : /\ j[1] = userId
                                                /\ currency \in {"", j[2]}
                                                /\ WalletExists(j)}}

(* wallet: { select: { currency: true } } *)
CurrencyOf(walletId) ==
    (CHOOSE k \in WalletKeys : wallets[k].id = walletId)[2]

RECURSIVE Reverse(_)
Reverse(seq) ==
    IF seq = <<>> THEN <<>> ELSE Append(Reverse(Tail(seq)), Head(seq))

(* where: { wallet: ... }, orderBy: { createdAt: 'desc' } *)
NewestFirst(log, walletIds) ==
    Reverse(SelectSeq(log, LAMBDA t : t.walletId \in walletIds))

(* skip: offset, take: limit *)
SkipTake(seq, offset, limit) ==
    SubSeq(seq, offset + 1, IF offset + limit < Len(seq) THEN offset + limit ELSE Len(seq))

(* A select that also returns internalNotes *)
PublicSelectWithNotes(t) ==
    [id |-> t.id, walletId |-> t.walletId, type |-> t.type, amount |-> t.amount,
     referenceId |-> t.referenceId, currency |-> CurrencyOf(t.walletId),
     internalNotes |-> t.internalNotes]

(* The select of getTransactions *)
PublicSelect(t) ==
    [id |-> t.id, walletId |-> t.walletId, type |-> t.type, amount |-> t.amount,
     referenceId |-> t.referenceId, currency |-> CurrencyOf(t.walletId)]

(* The select of getTransactionByReference *)
AuditSelect(t) ==
    [id |-> t.id, walletId |-> t.walletId, type |-> t.type, amount |-> t.amount,
     internalNotes |-> t.internalNotes,
     referenceId |-> t.referenceId, currency |-> CurrencyOf(t.walletId)]

(* Math.ceil(total / limit) *)
CeilDiv(total, limit) == (total + limit - 1) \div limit

(* getTransactions(userId, currency, page, limit) over the log *)
getTransactions(log, userId, currency, page, limit) ==
    LET rows == NewestFirst(log, WalletIdsOf(userId, currency))
        shown == SkipTake(rows, (page - 1) * limit, limit)
    IN [data |-> [i \in 1..Len(shown) |-> PublicSelect(shown[i])],
        total_count |-> Len(rows),
        total_pages |-> CeilDiv(Len(rows), limit),
        has_next |-> page < CeilDiv(Len(rows), limit),
        has_previous |-> page > 1]

(* referenceId: { contains: needle } *)
Contains(hay, needle) ==
    \E i \in 1..(Len(hay) - Len(needle) + 1) :
        SubSeq(hay, i, i + Len(needle) - 1) = needle

NoTransaction == [id |-> 0]

(* getTransactionByReference(walletType, transactionType, referenceId, userId)
   over the log: the newest match, or null *)
getTransactionByReference(log, walletType, transactionType, needle, userId) ==
    LET rows == SelectSeq(NewestFirst(log, WalletIdsOf(userId, walletType)),
                          LAMBDA t : /\ t.type = transactionType
                                     /\ Contains(t.referenceId, needle))
    IN IF rows = <<>> THEN NoTransaction ELSE AuditSelect(rows[1])

(* The keys of the object getBalance returns *)
BalanceCurrencies == {"points", "usdt", "gemx"}

(* getBalance(userId): wallets.find(w => w.currency === cur)?.balance || 0
   for each key of the returned object *)
getBalance(userId) ==
    [cur \in BalanceCurrencies |->
        IF <<userId, cur>> \in WalletKeys /\ WalletExists(<<userId, cur>>)
        THEN wallets[<<userId, cur>>].balance
        ELSE 0]

(* A read has returned: the user it was asked for and the value *)
ReadReturned(op, userId, value) ==
    [Returned(op, "none") EXCEPT !.key = <<userId, "points">>, !.out = value]

(* A getBalance that opens a row for each currency it does not find *)
GetBalanceCreating(c) ==
    /\ call[c].pc = "idle"
    /\ \E userId \in WalletUsers :
          /\ call' = [call EXCEPT ![c] =
                        ReadReturned("getBalance", userId, getBalance(userId))]
          /\ wallets' = IF WalletExists(<<userId, "points">>) THEN wallets
                        ELSE UpsertWallet(<<userId, "points">>, 0)
    /\ UNCHANGED txns
    /\ UNCHANGED <<gateVars, codecVars, refVars>>

(* WalletService.getBalance(userId): one findMany *)
GetBalance(c) ==
    /\ call[c].pc = "idle"
    /\ \E userId \in WalletUsers :
          call' = [call EXCEPT ![c] =
                     ReadReturned("getBalance", userId, getBalance(userId))]
    /\ UNCHANGED <<wallets, txns>>
    /\ UNCHANGED <<gateVars, codecVars, refVars>>

(* Pages and page sizes the readers ask for *)
Pages == {1, 2}
Limits == {1, 2}

(* WalletService.getTransactions(userId, currency, page, limit): findMany
   and count over one snapshot of the log *)
GetTransactions(c) ==
    /\ call[c].pc = "idle"
    /\ \E userId \in WalletUsers, currency \in {""} \cup Currencies,
          page \in Pages, limit \in Limits :
          call' = [call EXCEPT ![c] =
                     ReadReturned("getTransactions", userId,
                                  getTransactions(txns, userId, currency, page, limit))]
    /\ UNCHANGED <<wallets, txns>>
    /\ UNCHANGED <<gateVars, codecVars, refVars>>

(* WalletService.getTransactionByReference(walletType, transactionType,
   referenceId, userId): one findFirst *)
GetTransactionByReference(c) ==
    /\ call[c].pc = "idle"
    /\ \E userId \in WalletUsers, walletType \in Currencies,
          transactionType \in {"CREDIT", "DEBIT"} :
          call' = [call EXCEPT ![c] =
                     ReadReturned("getTransactionByReference", userId,
                                  getTransactionByReference(txns, walletType,
                                      transactionType, <<"ref">>, userId))]
    /\ UNCHANGED <<wallets, txns>>
    /\ UNCHANGED <<gateVars, codecVars, refVars>>

-----------------------------------------------------------------------------
(* Service authentication gate *)

AllowedServices == {"academy-service", "order-service"}

ServiceApiKeys == [n \in {"academy-service", "order-service", "rogue-service"} |->
                     IF n = "academy-service" THEN "key-a"
                     ELSE IF n = "order-service" THEN "key-o" ELSE "key-r"]

(* Header values a request may carry; "" is a missing header *)
ApiKeyHeaders == {"", "key-a", "key-r"}
ServiceNameHeaders == {"", "academy-service", "rogue-service"}

(* A validation that looks the key up without consulting the allow-list *)
ValidateServiceAuthKeyOnly(apiKey, serviceName) ==
    IF serviceName \notin DOMAIN ServiceApiKeys THEN ""
    ELSE IF ServiceApiKeys[serviceName] # apiKey THEN ""
    ELSE serviceName

(* validateServiceAuth: the service context's name, or "" for null *)
ValidateServiceAuth(apiKey, serviceName) ==
    IF serviceName \notin AllowedServices THEN ""
    ELSE IF serviceName \notin DOMAIN ServiceApiKeys THEN ""
    ELSE IF ServiceApiKeys[serviceName] # apiKey THEN ""
    ELSE serviceName

(* authenticateService: the error it passes to next(), or "none" *)
AuthenticateService(apiKey, serviceName) ==
    IF apiKey = "" \/ serviceName = "" THEN "Unauthorized"
    ELSE IF ValidateServiceAuth(apiKey, serviceName) = "" THEN "Unauthorized"
    ELSE "none"

-----------------------------------------------------------------------------
(* Idempotency gate and InternalWalletController *)

IdemKeys == {"k1", "k2"}
Endpoints == {"credit", "debit"}

(* Request bodies: the amounts 0 and -1 are the bodies internalCreditSchema
   and internalDebitSchema reject *)
Bodies == [user : {1}, cur : {"points"}, amount : {0 - 1, 0} \cup Amounts]

NoResult == [transaction |-> 0, message |-> ""]
NoResponse == [error |-> "pending"]

(* closed: the client's connection has closed; released: cleanupLock has
   run for this request *)
NewReq == [pc |-> "new", key |-> "", ep |-> "credit",
           body |-> [user |-> 1, cur |-> "points", amount |-> 0],
           apiKey |-> "", name |-> "", service |-> "", txn |-> 0,
           resp |-> NoResponse, closed |-> FALSE, released |-> FALSE]

(* The x-api-key and x-service-name headers the request carries *)
WithHeaders(q, apiKey, name) == [q EXCEPT !.apiKey = apiKey, !.name = name]

GateInit ==
    /\ cache = [k \in IdemKeys |-> NoResult]
    /\ lock = [k \in IdemKeys |-> 0]
    /\ ttlExpired = FALSE
    /\ req = [r \in Reqs |-> NewReq]

(* getCache(resultKey): truthy iff a result is stored *)
Cached(k) == cache[k] # NoResult

(* A schema that rejects only the amount 0 *)
ValidBodyNonZero(b) == b.amount # 0

(* internalCreditSchema / internalDebitSchema: amount must be positive *)
ValidBody(b) == b.amount > 0

(* successResponse(res, { transaction }, message): the response envelope *)
SuccessResponse(txnId, message) ==
    [success |-> TRUE, message |-> message, data |-> [transaction |-> txnId]]

(* const response = { transaction, message }: what the controller caches *)
CachedResult(txnId, message) ==
    [transaction |-> txnId, message |-> message]

ErrorResponse(code) == [error |-> code]

SuccessMessage(ep) ==
    IF ep = "credit" THEN "Wallet credited successfully"
    ELSE "Wallet debited successfully"

(* The response has been written and the request registered no cleanup.
   Of a finished request only the key, the transaction it committed and the
   response are kept. *)
Answered(r, k, response) ==
    [NewReq EXCEPT !.pc = "done", !.key = k, !.resp = response,
                   !.apiKey = req[r].apiKey, !.name = req[r].name]

(* The response is the cached result: the request's payload is kept to be
   compared with the payload that produced the result. *)
Replayed(r, k, ep, b) ==
    [NewReq EXCEPT !.pc = "done", !.key = k, !.ep = ep, !.body = b, !.resp = cache[k],
                   !.apiKey = req[r].apiKey, !.name = req[r].name]

(* The response has been written by a request that registered cleanupLock *)
Finishing(r, response) ==
    [NewReq EXCEPT !.pc = "finish", !.key = req[r].key, !.txn = req[r].txn,
                   !.resp = response,
                   !.apiKey = req[r].apiKey, !.name = req[r].name,
                   !.closed = req[r].closed, !.released = req[r].released]

(* authenticateService rejects the request: next(AuthenticationError) *)
ArriveUnauthorized(r) ==
    /\ req[r].pc = "new"
    /\ \E apiKey \in ApiKeyHeaders, name \in ServiceNameHeaders :
          /\ AuthenticateService(apiKey, name) # "none"
          /\ req' = [req EXCEPT ![r] =
                       WithHeaders(Answered(r, "", ErrorResponse("Unauthorized")),
                                   apiKey, name)]
    /\ UNCHANGED <<cache, lock, ttlExpired>>
    /\ UNCHANGED <<walletVars, codecVars, refVars>>

(* An ensureIdempotency that answers from the cache only a request whose
   body is valid *)
ArriveWithValidatingFirst(r, apiKeys, names) ==
    /\ req[r].pc = "new"
    /\ \E apiKey \in apiKeys, name \in names :
          /\ AuthenticateService(apiKey, name) = "none"
          /\ \/ req' = [req EXCEPT ![r] =
                          WithHeaders(Answered(r, "", ErrorResponse("BadRequest")),
                                      apiKey, name)]
             \/ \E k \in IdemKeys, ep \in Endpoints, b \in Bodies :
                  req' = [req EXCEPT ![r] =
                            WithHeaders(
                              IF Cached(k) /\ ValidBody(b)
                              THEN Replayed(r, k, ep, b)
                              ELSE IF Cached(k)
                              THEN Answered(r, k, ErrorResponse("ValidationError"))
                              ELSE [@ EXCEPT !.pc = "acquire", !.key = k, !.ep = ep,
                                             !.body = b,
                                             !.service = ValidateServiceAuth(apiKey, name)],
                              apiKey, name)]
    /\ UNCHANGED <<cache, lock, ttlExpired>>
    /\ UNCHANGED <<walletVars, codecVars, refVars>>

(* authenticateService passes, then ensureIdempotency up to its first
   getCache: a missing key is a BadRequest, a cached result is replayed.
   The request carries one of the given x-api-key and x-service-name values. *)
ArriveWith(r, apiKeys, names) ==
    /\ req[r].pc = "new"
    /\ \E apiKey \in apiKeys, name \in names :
          /\ AuthenticateService(apiKey, name) = "none"
          /\ \/ req' = [req EXCEPT ![r] =
                          WithHeaders(Answered(r, "", ErrorResponse("BadRequest")),
                                      apiKey, name)]
             \/ \E k \in IdemKeys, ep \in Endpoints, b \in Bodies :
                  req' = [req EXCEPT ![r] =
                            WithHeaders(
                              IF Cached(k)
                              THEN Replayed(r, k, ep, b)
                              ELSE [@ EXCEPT !.pc = "acquire", !.key = k, !.ep = ep,
                                             !.body = b,
                                             !.service = ValidateServiceAuth(apiKey, name)],
                              apiKey, name)]
    /\ UNCHANGED <<cache, lock, ttlExpired>>
    /\ UNCHANGED <<walletVars, codecVars, refVars>>

Arrive(r) == ArriveWith(r, ApiKeyHeaders, ServiceNameHeaders)

(* redis.set(lockKey, '1', { NX, PX: 30000 }); on success the cleanup is
   registered and validateBody runs before the controller's first await. *)
AcquireLock(r) ==
    /\ req[r].pc = "acquire"
    /\ IF lock[req[r].key] = 0
       THEN /\ lock' = [lock EXCEPT ![req[r].key] = r]
            /\ req' = [req EXCEPT ![r] =
                         IF ValidBody(req[r].body)
                         THEN [@ EXCEPT !.pc = "ledger"]
                         ELSE Finishing(r, ErrorResponse("ValidationError"))]
       ELSE /\ lock' = lock
            /\ req' = [req EXCEPT ![r].pc = "wait"]
    /\ UNCHANGED <<cache, ttlExpired>>
    /\ UNCHANGED <<walletVars, codecVars, refVars>>

(* A loser that goes back to the lock until it gets it *)
RecheckUntilAcquired(r) ==
    /\ req[r].pc = "wait"
    /\ req' = [req EXCEPT ![r].pc = "acquire"]
    /\ UNCHANGED <<cache, lock, ttlExpired>>
    /\ UNCHANGED <<walletVars, codecVars, refVars>>

(* After the 100 ms wait: getCache once more, then the result or Conflict *)
Recheck(r) ==
    /\ req[r].pc = "wait"
    /\ req' = [req EXCEPT ![r] =
                 IF Cached(req[r].key)
                 THEN Replayed(r, req[r].key, req[r].ep, req[r].body)
                 ELSE Answered(r, req[r].key, ErrorResponse("Conflict"))]
    /\ UNCHANGED <<cache, lock, ttlExpired>>
    /\ UNCHANGED <<walletVars, codecVars, refVars>>

(* InternalWalletController.creditWallet: walletService.creditWallet commits *)
GateCredit(r) ==
    /\ req[r].pc = "ledger" /\ req[r].ep = "credit"
    /\ CreditTx(<<req[r].body.user, req[r].body.cur>>, req[r].body.amount,
                req[r].service)
    /\ req' = [req EXCEPT ![r].pc = "cache", ![r].txn = Len(txns')]
    /\ UNCHANGED <<call, cache, lock, ttlExpired, codecVars, refVars>>

(* A controller that stores the error of a failed debit as the result *)
GateDebitReadCachingError(r) ==
    /\ req[r].pc = "ledger" /\ req[r].ep = "debit"
    /\ LET e == DebitCheck(<<req[r].body.user, req[r].body.cur>>, req[r].body.amount)
       IN /\ req' = [req EXCEPT ![r] =
                       IF e # "none" THEN Finishing(r, ErrorResponse(e))
                       ELSE [@ EXCEPT !.pc = "debit_write"]]
          /\ cache' = IF e # "none"
                      THEN [cache EXCEPT ![req[r].key] = CachedResult(0, e)]
                      ELSE cache
    /\ UNCHANGED <<lock, ttlExpired>>
    /\ UNCHANGED <<walletVars, codecVars, refVars>>

(* InternalWalletController.debitWallet: walletService.debitWallet reads and
   checks the row; a failed check goes to next(error). *)
GateDebitRead(r) ==
    /\ req[r].pc = "ledger" /\ req[r].ep = "debit"
    /\ LET e == DebitCheck(<<req[r].body.user, req[r].body.cur>>, req[r].body.amount)
       IN req' = [req EXCEPT ![r] =
                    IF e # "none" THEN Finishing(r, ErrorResponse(e))
                    ELSE [@ EXCEPT !.pc = "debit_write"]]
    /\ UNCHANGED <<cache, lock, ttlExpired>>
    /\ UNCHANGED <<walletVars, codecVars, refVars>>

GateDebitCommit(r) ==
    /\ req[r].pc = "debit_write"
    /\ DebitTx(<<req[r].body.user, req[r].body.cur>>, req[r].body.amount,
               req[r].service)
    /\ req' = [req EXCEPT ![r].pc = "cache", ![r].txn = Len(txns')]
    /\ UNCHANGED <<call, cache, lock, ttlExpired, codecVars, refVars>>

(* The ledger transaction rolls back on a storage failure: next(error) *)
GateTxAbort(r) ==
    /\ \/ req[r].pc = "ledger" /\ req[r].ep = "credit"
       \/ req[r].pc = "debit_write"
    /\ req' = [req EXCEPT ![r] = Finishing(r, ErrorResponse("InternalError"))]
    /\ UNCHANGED <<cache, lock, ttlExpired>>
    /\ UNCHANGED <<walletVars, codecVars, refVars>>

(* setCache(`idempotency:${key}`, JSON.stringify(response), 3600), then
   successResponse(res, { transaction }, message) *)
CacheAndRespond(r) ==
    /\ req[r].pc = "cache"
    /\ cache' = [cache EXCEPT ![req[r].key] =
                   CachedResult(req[r].txn, SuccessMessage(req[r].ep))]
    /\ req' = [req EXCEPT ![r] =
                 Finishing(r, SuccessResponse(req[r].txn, SuccessMessage(req[r].ep)))]
    /\ UNCHANGED <<lock, ttlExpired>>
    /\ UNCHANGED <<walletVars, codecVars, refVars>>

(* res 'finish' -> cleanupLock: redis.del(lockKey), whoever set the key *)
CleanupOnFinish(r) ==
    /\ req[r].pc = "finish" /\ ~req[r].closed
    /\ lock' = [lock EXCEPT ![req[r].key] = 0]
    /\ req' = [req EXCEPT ![r].pc = "close", ![r].released = TRUE]
    /\ UNCHANGED <<cache, ttlExpired>>
    /\ UNCHANGED <<walletVars, codecVars, refVars>>

(* res 'close' -> cleanupLock a second time *)
CleanupOnClose(r) ==
    /\ req[r].pc = "close"
    /\ lock' = [lock EXCEPT ![req[r].key] = 0]
    /\ req' = [req EXCEPT ![r].pc = "done"]
    /\ UNCHANGED <<cache, ttlExpired>>
    /\ UNCHANGED <<walletVars, codecVars, refVars>>

(* The client's connection closes while ensureIdempotency awaits redis: the
   response's 'close' is emitted before cleanupLock is registered, and a
   listener added afterwards is not called. *)
DisconnectEarly(r) ==
    /\ req[r].pc = "acquire" /\ ~req[r].closed
    /\ req' = [req EXCEPT ![r].closed = TRUE]
    /\ UNCHANGED <<cache, lock, ttlExpired>>
    /\ UNCHANGED <<walletVars, codecVars, refVars>>

(* The client's connection closes while the controller runs:
   res 'close' -> cleanupLock; the controller goes on. *)
Disconnect(r) ==
    /\ req[r].pc \in {"ledger", "debit_write", "cache"} /\ ~req[r].closed
    /\ lock' = [lock EXCEPT ![req[r].key] = 0]
    /\ req' = [req EXCEPT ![r].closed = TRUE, ![r].released = TRUE]
    /\ UNCHANGED <<cache, ttlExpired>>
    /\ UNCHANGED <<walletVars, codecVars, refVars>>

(* The response is written to a connection that has closed: the write is
   dropped and neither 'finish' nor a second 'close' is emitted. *)
FinishUnsent(r) ==
    /\ req[r].pc = "finish" /\ req[r].closed
    /\ req' = [req EXCEPT ![r].pc = "done"]
    /\ UNCHANGED <<cache, lock, ttlExpired>>
    /\ UNCHANGED <<walletVars, codecVars, refVars>>

(* The process serving the request dies, or the request hangs for good,
   after the lock is taken and before a result is cached: nothing of the
   request runs again, its lock key stays. *)
Crash(r) ==
    /\ req[r].pc \in {"ledger", "debit_write", "cache"}
    /\ req' = [req EXCEPT ![r] = [Finishing(r, NoResponse) EXCEPT !.pc = "dead"]]
    /\ UNCHANGED <<cache, lock, ttlExpired>>
    /\ UNCHANGED <<walletVars, codecVars, refVars>>

(* The caller that was told Conflict sends the same request again:
   authenticateService passes as before, then getCache *)
Retry(r) ==
    /\ req[r].pc = "done" /\ req[r].resp = ErrorResponse("Conflict")
    /\ \E ep \in Endpoints, b \in Bodies :
          req' = [req EXCEPT ![r] =
                    IF Cached(req[r].key)
                    THEN Replayed(r, req[r].key, ep, b)
                    ELSE [Answered(r, req[r].key, NoResponse) EXCEPT
                             !.pc = "acquire", !.ep = ep, !.body = b,
                             !.service = ValidateServiceAuth(req[r].apiKey, req[r].name)]]
    /\ UNCHANGED <<cache, lock, ttlExpired>>
    /\ UNCHANGED <<walletVars, codecVars, refVars>>

(* A lock key set without expiry *)
LockPersists(k) ==
    /\ lock[k] # 0
    /\ UNCHANGED vars

(* The PX: 30000 expiry of a lock key *)
LockExpire(k) ==
    /\ lock[k] # 0
    /\ lock' = [lock EXCEPT ![k] = 0]
    /\ ttlExpired' = TRUE
    /\ UNCHANGED <<cache, req>>
    /\ UNCHANGED <<walletVars, codecVars, refVars>>

NextGate ==
    \/ \E r \in Reqs :
        \/ ArriveUnauthorized(r)
        \/ Arrive(r)
        \/ AcquireLock(r)
        \/ Recheck(r)
        \/ GateCredit(r)
        \/ GateDebitRead(r)
        \/ GateDebitCommit(r)
        \/ GateTxAbort(r)
        \/ CacheAndRespond(r)
        \/ CleanupOnFinish(r)
        \/ CleanupOnClose(r)
        \/ DisconnectEarly(r)
        \/ Disconnect(r)
        \/ FinishUnsent(r)
        \/ Crash(r)
        \/ Retry(r)
    \/ \E k \in IdemKeys : LockExpire(k)

(* Requests of two allowed services, each with its own key; every client
   stays connected and the server stays up *)
NextReplay ==
    \E r \in Reqs :
        \/ ArriveWith(r, {"key-a", "key-o"}, AllowedServices)
        \/ AcquireLock(r)
        \/ Recheck(r)
        \/ GateCredit(r)
        \/ GateDebitRead(r)
        \/ GateDebitCommit(r)
        \/ GateTxAbort(r)
        \/ CacheAndRespond(r)
        \/ CleanupOnFinish(r)
        \/ CleanupOnClose(r)
        \/ Retry(r)

-----------------------------------------------------------------------------
(* Referral code codec.  A string is a sequence of one-character strings. *)

BASE62 == << "0", "1", "2", "3", "4", "5", "6", "7", "8", "9",
             "A", "B", "C", "D", "E", "F", "G", "H", "I", "J", "K", "L", "M",
             "N", "O", "P", "Q", "R", "S", "T", "U", "V", "W", "X", "Y", "Z",
             "a", "b", "c", "d", "e", "f", "g", "h", "i", "j", "k", "l", "m",
             "n", "o", "p", "q", "r", "s", "t", "u", "v", "w", "x", "y", "z" >>

Radix == 62
PadWidth == 4

(* The while loop of generateReferralCode: result = BASE62[num % 62] + result *)
RECURSIVE Base62Digits(_)
Base62Digits(num) ==
    IF num > 0
    THEN Append(Base62Digits(num \div Radix), BASE62[(num % Radix) + 1])
    ELSE <<>>

(* String.prototype.padStart(width, ch) *)
PadStart(str, width, ch) ==
    IF Len(str) >= width THEN str
    ELSE [i \in 1..(width - Len(str)) |-> ch] \o str

generateReferralCode(userId) ==
    <<"R">> \o PadStart(Base62Digits(userId), PadWidth, "0")

(* indexOf read as a one-based position *)
IndexOfOneBased(ch) ==
    IF \E i \in 1..Len(BASE62) : BASE62[i] = ch
    THEN CHOOSE i \in 1..Len(BASE62) : BASE62[i] = ch
    ELSE 0 - 1

(* BASE62.indexOf(char) *)
IndexOf(ch) ==
    IF \E i \in 1..Len(BASE62) : BASE62[i] = ch
    THEN (CHOOSE i \in 1..Len(BASE62) : BASE62[i] = ch) - 1
    ELSE 0 - 1

(* The for loop of decodeReferralCode over encoded[i..]: the accumulated
   value, or -1 once a character is outside BASE62 *)
RECURSIVE DecodeFrom(_, _, _)
DecodeFrom(encoded, i, result) ==
    IF i > Len(encoded) THEN result
    ELSE IF IndexOf(encoded[i]) = 0 - 1 THEN 0 - 1
    ELSE DecodeFrom(encoded, i + 1, result * Radix + IndexOf(encoded[i]))

(* decodeReferralCode: the number returned, or the Error thrown *)
decodeReferralCode(code) ==
    IF Len(code) = 0 \/ code[1] # "R"
    THEN [threw |-> TRUE, value |-> 0, error |-> "Invalid referral code format"]
    ELSE LET n == DecodeFrom(SubSeq(code, 2, Len(code)), 1, 0) IN
         IF n = 0 - 1
         THEN [threw |-> TRUE, value |-> 0, error |-> "Invalid referral code character"]
         ELSE [threw |-> FALSE, value |-> n, error |-> ""]

(* /^R[0-9A-Za-z]+$/ *)
MatchesCodeFormat(code) ==
    /\ Len(code) >= 2
    /\ code[1] = "R"
    /\ \A i \in 2..Len(code) : IndexOf(code[i]) >= 0

(* User ids the codec is evaluated on: the first ids, the ids around every
   change of the number of digits, and the top of the documented range *)
IdSamples ==
    (1..MaxId)
    \cup {61, 62, 63, 3843, 3844, 3845, 238327, 238328, 238329}
    \cup {9999999, 10000000, 14776335}

(* Strings handed to decodeReferralCode: every string of at most MaxCodeLen
   characters over a letter, a digit, the prefix, a lower-case r and a
   character outside BASE62 *)
CodeChars == {"R", "0", "z", "r", "!"}

CodeStrings == UNION {[1..n -> CodeChars] : n \in 0..MaxCodeLen}

NoOutput == [threw |-> FALSE, value |-> 0, error |-> "pending"]

CodecIdle == codec = [pc |-> "idle", userId |-> 0, code |-> <<>>, out |-> NoOutput]

CodecInit ==
    \/ \E id \in IdSamples :
          codec = [pc |-> "id", userId |-> id, code |-> <<>>, out |-> NoOutput]
    \/ \E str \in CodeStrings :
          codec = [pc |-> "code", userId |-> 0, code |-> str, out |-> NoOutput]

Generate ==
    /\ codec.pc = "id"
    /\ codec' = [codec EXCEPT !.pc = "code", !.code = generateReferralCode(codec.userId)]
    /\ UNCHANGED <<walletVars, gateVars, refVars>>

Decode ==
    /\ codec.pc = "code"
    /\ codec' = [codec EXCEPT !.pc = "decoded", !.out = decodeReferralCode(codec.code)]
    /\ UNCHANGED <<walletVars, gateVars, refVars>>

NextCodec == Generate \/ Decode

-----------------------------------------------------------------------------
(* Referral graph: UserService.setReferrer, updateReferrers, createUsers *)

UserIds == 1..MaxUsers
Tasks == 1..NumTasks

UserExists(u) == u \in 1..nUsers

(* Codes handed to setReferrer: the code of every id, a bare prefix and a
   code with a character outside BASE62 *)
RefCodes == {generateReferralCode(u) : u \in UserIds} \cup {<<"R">>, <<"R", "!">>}

(* size, left: the length of the batch and the items not yet settled;
   updated, failed: the result lists of updateReferrers; code: the referral
   code of a setReferrer call, kept while the decoded id is looked up and
   with a decode failure *)
IdleTask == [pc |-> "idle", kind |-> "none", user |-> 0, code |-> <<>>, ref |-> 0,
             cur |-> 0, visited |-> {}, snap |-> 0, size |-> 0, left |-> 0,
             updated |-> <<>>, failed |-> <<>>, result |-> "none"]

RefIdle ==
    /\ nUsers = 0
    /\ referrer = [u \in UserIds |-> 0]
    /\ task = [p \in Tasks |-> IdleTask]
    /\ hooks = {}

(* All users but the last id exist and nobody has a referrer *)
RefInit ==
    /\ nUsers = MaxUsers - 1
    /\ referrer = [u \in UserIds |-> 0]
    /\ task = [p \in Tasks |-> IdleTask]
    /\ hooks = {}

(* env.WEBHOOK_URLS: the configured subscribers *)
WebhookUrls == {"https://a.example/hook", "https://b.example/hook"}

(* sendWebhooks(urls, { event, data }, secret): urls.map(sendWebhook) starts
   one fetch per URL before the function first yields *)
SendWebhooks(urls, event, referrerId, userId) ==
    hooks \cup {[event |-> event, referrerId |-> referrerId, userId |-> userId,
                 url |-> u, status |-> "sent"] : u \in urls}

(* setReferrer has thrown or returned: the user, the referrer it assigned
   (0 if none) and the outcome remain *)
SetReferrerDone(userId, ref, result) ==
    [IdleTask EXCEPT !.pc = "done", !.kind = "setReferrer", !.user = userId,
                     !.ref = ref, !.result = result]

(* One item of a batch is settled: the loop goes to the next item, or the
   batch returns *)
NextItem(t) ==
    [IdleTask EXCEPT !.pc = IF t.left > 1 THEN "item" ELSE "done",
                     !.kind = t.kind,
                     !.snap = IF t.left > 1 THEN t.snap ELSE 0,
                     !.size = t.size, !.left = t.left - 1,
                     !.updated = t.updated, !.failed = t.failed]

(* A failed pair that ends the batch *)
ItemFailedAborting(t, referee, ref, reason) ==
    [NextItem([t EXCEPT !.failed = Append(@, <<referee, ref, reason>>)])
       EXCEPT !.pc = "done"]

(* failed.push({ refereeUserId, referrerUserId, reason }); continue *)
ItemFailed(t, referee, ref, reason) ==
    NextItem([t EXCEPT !.failed = Append(@, <<referee, ref, reason>>)])

(* updated.push({ refereeUserId, referrerUserId }) *)
ItemUpdated(t) ==
    NextItem([t EXCEPT !.updated = Append(@, <<t.user, t.ref>>)])

(* A check that goes straight to the walk *)
EnterWalkWithoutSelfTest(userId, referrerId) == "walk"

(* checkCircularReference(userId, referrerId) up to its first findUnique:
   the self-reference test, then the first turn of the loop *)
EnterWalk(userId, referrerId) ==
    IF referrerId = userId THEN "circular"
    ELSE "walk"

(* The task stops with the circular-reference error: setReferrer throws
   BadRequestError('Circular reference detected'), written CircularReference
   to tell it from the BadRequestError of a decode failure *)
Circular(t) ==
    IF t.kind = "setReferrer" THEN SetReferrerDone(t.user, 0, "CircularReference")
    ELSE ItemFailed(t, t.user, t.ref, "Circular reference detected")

(* setReferrer has thrown BadRequestError('Invalid referral code') *)
DecodeFailed(userId, code) ==
    [SetReferrerDone(userId, 0, "BadRequest") EXCEPT !.code = code]

(* The code is decoded, userId exists and has no referrer: on to the
   findUnique of the referrer *)
Decoded(userId, code, referrerId) ==
    [IdleTask EXCEPT !.pc = "find_referrer", !.kind = "setReferrer",
                     !.user = userId, !.code = code, !.ref = referrerId]

(* A setReferrer that decodes the code before it looks at the user *)
SetReferrerStartDecodeFirst(p) ==
    /\ task[p].pc = "idle"
    /\ \E userId \in UserIds, code \in RefCodes :
         LET d == decodeReferralCode(code) IN
         task' = [task EXCEPT ![p] =
                    IF d.threw THEN DecodeFailed(userId, code)
                    ELSE IF ~UserExists(userId) THEN SetReferrerDone(userId, 0, "NotFound")
                    ELSE IF referrer[userId] # 0
                    THEN SetReferrerDone(userId, 0, "Conflict")
                    ELSE Decoded(userId, code, d.value)]
    /\ UNCHANGED <<nUsers, referrer, hooks>>
    /\ UNCHANGED <<walletVars, gateVars, codecVars>>

(* setReferrer: findUnique of the user, the two checks, decodeReferralCode *)
SetReferrerStart(p) ==
    /\ task[p].pc = "idle"
    /\ \E userId \in UserIds, code \in RefCodes :
         LET d == decodeReferralCode(code) IN
         task' = [task EXCEPT ![p] =
                    IF ~UserExists(userId) THEN SetReferrerDone(userId, 0, "NotFound")
                    ELSE IF referrer[userId] # 0
                    THEN SetReferrerDone(userId, 0, "Conflict")
                    ELSE IF d.threw THEN DecodeFailed(userId, code)
                    ELSE Decoded(userId, code, d.value)]
    /\ UNCHANGED <<nUsers, referrer, hooks>>
    /\ UNCHANGED <<walletVars, gateVars, codecVars>>

(* setReferrer: findUnique of the referrer, then checkCircularReference up
   to its first read *)
FindReferrer(p) ==
    /\ task[p].pc = "find_referrer"
    /\ task' = [task EXCEPT ![p] =
                  IF ~UserExists(task[p].ref)
                  THEN SetReferrerDone(task[p].user, 0, "NotFound")
                  ELSE IF EnterWalk(task[p].user, task[p].ref) = "circular"
                  THEN Circular(task[p])
                  ELSE [@ EXCEPT !.pc = "walk", !.code = <<>>, !.cur = task[p].ref,
                                 !.visited = {task[p].ref}]]
    /\ UNCHANGED <<nUsers, referrer, hooks>>
    /\ UNCHANGED <<walletVars, gateVars, codecVars>>

(* A walk that stops only at a null referrerId *)
WalkStepWithoutVisited(p) ==
    /\ task[p].pc = "walk"
    /\ LET next == IF UserExists(task[p].cur) THEN referrer[task[p].cur] ELSE 0 IN
       task' = [task EXCEPT ![p] =
                  IF next = 0
                  THEN [@ EXCEPT !.pc = "update", !.cur = 0, !.visited = {}]
                  ELSE IF next = task[p].user THEN Circular(task[p])
                  ELSE [@ EXCEPT !.cur = next, !.visited = @ \cup {next}]]
    /\ UNCHANGED <<nUsers, referrer, hooks>>
    /\ UNCHANGED <<walletVars, gateVars, codecVars>>

(* checkCircularReference: one findUnique of the loop, then the loop test,
   visited.add and the comparison with userId of the next turn *)
WalkStep(p) ==
    /\ task[p].pc = "walk"
    /\ LET next == IF UserExists(task[p].cur) THEN referrer[task[p].cur] ELSE 0 IN
       task' = [task EXCEPT ![p] =
                  IF next = 0 \/ next \in task[p].visited
                  THEN [@ EXCEPT !.pc = "update", !.cur = 0, !.visited = {}]
                  ELSE IF next = task[p].user THEN Circular(task[p])
                  ELSE [@ EXCEPT !.cur = next, !.visited = @ \cup {next}]]
    /\ UNCHANGED <<nUsers, referrer, hooks>>
    /\ UNCHANGED <<walletVars, gateVars, codecVars>>

(* prisma.user.update({ where: { id }, data: { referrerId } }) *)
UpdateReferrer(p) ==
    /\ task[p].pc = "update"
    /\ referrer' = [referrer EXCEPT ![task[p].user] = task[p].ref]
    /\ hooks' = SendWebhooks(WebhookUrls,
                             IF task[p].kind = "setReferrer"
                             THEN "referral.created" ELSE "referral.updated",
                             task[p].ref, task[p].user)
    /\ task' = [task EXCEPT ![p] =
                  IF task[p].kind = "setReferrer"
                  THEN SetReferrerDone(task[p].user, task[p].ref, "ok")
                  ELSE ItemUpdated(task[p])]
    /\ UNCHANGED nUsers
    /\ UNCHANGED <<walletVars, gateVars, codecVars>>

(* A prisma call of the service rejects: the findUnique of the referrer or
   of the walk, or the update.  setReferrer lets the error through; the loop
   of updateReferrers catches it and records the pair as failed. *)
StorageError(p) ==
    /\ task[p].pc \in {"find_referrer", "walk", "update"}
    /\ task' = [task EXCEPT ![p] =
                  IF task[p].kind = "setReferrer"
                  THEN SetReferrerDone(task[p].user, 0, "InternalError")
                  ELSE ItemFailed(@, task[p].user, task[p].ref, "Unknown error")]
    /\ UNCHANGED <<nUsers, referrer, hooks>>
    /\ UNCHANGED <<walletVars, gateVars, codecVars>>

(* A findMany before the loop of a batch rejects: it is outside the loop's
   try, so the call throws and returns no lists *)
BatchThrown(kind, n) ==
    [IdleTask EXCEPT !.pc = "done", !.kind = kind, !.size = n,
                     !.result = "InternalError"]

(* updateReferrers: the findMany that collects the existing user ids; the
   batch holds 1..MaxBatch pairs *)
UpdateReferrersStart(p) ==
    /\ task[p].pc = "idle"
    /\ \E n \in 1..MaxBatch :
          \/ task' = [task EXCEPT ![p] =
                        [IdleTask EXCEPT !.pc = "item", !.kind = "updateReferrers",
                                         !.snap = nUsers, !.size = n, !.left = n]]
          \/ task' = [task EXCEPT ![p] = BatchThrown("updateReferrers", n)]
    /\ UNCHANGED <<nUsers, referrer, hooks>>
    /\ UNCHANGED <<walletVars, gateVars, codecVars>>

(* updateReferrers, one turn of the loop up to its first await: both ids
   against existingUserIds, then checkCircularReference up to its first read *)
UpdateReferrersItem(p) ==
    /\ task[p].pc = "item" /\ task[p].kind = "updateReferrers"
    /\ \E referee \in UserIds, ref \in UserIds :
          task' = [task EXCEPT ![p] =
                     IF referee > task[p].snap
                     THEN ItemFailed(@, referee, ref, "Referee user not found")
                     ELSE IF ref > task[p].snap
                     THEN ItemFailed(@, referee, ref, "Referrer user not found")
                     ELSE IF EnterWalk(referee, ref) = "circular"
                     THEN ItemFailed(@, referee, ref, "Circular reference detected")
                     ELSE [@ EXCEPT !.pc = "walk", !.user = referee, !.ref = ref,
                                    !.cur = ref, !.visited = {ref}]]
    /\ UNCHANGED <<nUsers, referrer, hooks>>
    /\ UNCHANGED <<walletVars, gateVars, codecVars>>

(* createUsers: the findMany reads that precede the loop; validReferrerIds
   holds the users that exist now *)
CreateUsersStart(p) ==
    /\ task[p].pc = "idle"
    /\ \E n \in 1..MaxBatch :
          \/ task' = [task EXCEPT ![p] =
                        [IdleTask EXCEPT !.pc = "item", !.kind = "createUsers",
                                         !.snap = nUsers, !.size = n, !.left = n]]
          \/ task' = [task EXCEPT ![p] = BatchThrown("createUsers", n)]
    /\ UNCHANGED <<nUsers, referrer, hooks>>
    /\ UNCHANGED <<walletVars, gateVars, codecVars>>

(* createUsers, one turn of the loop: a referrerId outside validReferrerIds
   fails the item, otherwise prisma.user.create inserts the next id.  The id
   space ends at MaxUsers: beyond it the create fails (caught, item failed). *)
CreateUsersItem(p) ==
    /\ task[p].pc = "item" /\ task[p].kind = "createUsers"
    /\ \E ref \in {0} \cup UserIds :
          IF (ref # 0 /\ ref > task[p].snap) \/ nUsers >= MaxUsers
          THEN UNCHANGED <<nUsers, referrer, hooks>>
          ELSE /\ nUsers' = nUsers + 1
               /\ referrer' = [referrer EXCEPT ![nUsers + 1] = ref]
               /\ hooks' = SendWebhooks(WebhookUrls, "user.created", 0, nUsers + 1)
                              \cup (IF ref = 0 THEN {}
                                    ELSE SendWebhooks(WebhookUrls, "referral.created",
                                                      ref, nUsers + 1))
    /\ task' = [task EXCEPT ![p] = NextItem(@)]
    /\ UNCHANGED <<walletVars, gateVars, codecVars>>

(* A delivery that undoes the assignment when the subscriber fails *)
HookFailedReverting(h) ==
    /\ h \in hooks /\ h.status = "sent"
    /\ hooks' = (hooks \ {h}) \cup {[h EXCEPT !.status = "failed"]}
    /\ referrer' = [referrer EXCEPT ![h.userId] = 0]
    /\ UNCHANGED <<nUsers, task>>
    /\ UNCHANGED <<walletVars, gateVars, codecVars>>

(* sendWebhook: fetch rejects or the response is not ok; console.error *)
HookFailed(h) ==
    /\ h \in hooks /\ h.status = "sent"
    /\ hooks' = (hooks \ {h}) \cup {[h EXCEPT !.status = "failed"]}
    /\ UNCHANGED <<nUsers, referrer, task>>
    /\ UNCHANGED <<walletVars, gateVars, codecVars>>

(* sendWebhook: the subscriber answers 2xx *)
HookDelivered(h) ==
    /\ h \in hooks /\ h.status = "sent"
    /\ hooks' = (hooks \ {h}) \cup {[h EXCEPT !.status = "delivered"]}
    /\ UNCHANGED <<nUsers, referrer, task>>
    /\ UNCHANGED <<walletVars, gateVars, codecVars>>

(* A referrer graph without cycles, all users existing *)
RECURSIVE AncestorIn(_, _, _)
AncestorIn(g, u, n) ==
    IF n = 0 \/ u = 0 THEN u ELSE AncestorIn(g, g[u], n - 1)

AcyclicGraphs ==
    {g \in [UserIds -> {0} \cup UserIds] :
        \A u \in UserIds : AncestorIn(g, u, MaxUsers) = 0}

CycleInit ==
    /\ nUsers = MaxUsers
    /\ referrer \in AcyclicGraphs
    /\ task = [p \in Tasks |-> IdleTask]
    /\ hooks = {}

(* One setReferrer or updateReferrers call running alone *)
NextCycle ==
    \E p \in Tasks :
        /\ \A q \in Tasks \ {p} : task[q].pc = "idle"
        /\ \/ SetReferrerStart(p)
           \/ FindReferrer(p)
           \/ WalkStep(p)
           \/ UpdateReferrer(p)
           \/ StorageError(p)
           \/ UpdateReferrersStart(p)
           \/ UpdateReferrersItem(p)

(* Any referrer graph, cycles included, all users existing *)
AnyGraphInit ==
    /\ nUsers = MaxUsers
    /\ referrer \in [UserIds -> {0} \cup UserIds]
    /\ task = [p \in Tasks |-> IdleTask]
    /\ hooks = {}

(* One setReferrer call running alone *)
NextWalk ==
    \E p \in Tasks :
        /\ \A q \in Tasks \ {p} : task[q].pc = "idle"
        /\ \/ SetReferrerStart(p)
           \/ FindReferrer(p)
           \/ WalkStep(p)
           \/ UpdateReferrer(p)
           \/ StorageError(p)

(* setReferrer calls and the webhook deliveries they start *)
NextHook ==
    \/ \E p \in Tasks :
          \/ SetReferrerStart(p)
          \/ FindReferrer(p)
          \/ WalkStep(p)
          \/ UpdateReferrer(p)
          \/ StorageError(p)
    \/ \E h \in hooks : HookFailed(h) \/ HookDelivered(h)

NextRef ==
    \E p \in Tasks :
        \/ SetReferrerStart(p)
        \/ FindReferrer(p)
        \/ WalkStep(p)
        \/ UpdateReferrer(p)
        \/ StorageError(p)
        \/ UpdateReferrersStart(p)
        \/ UpdateReferrersItem(p)
        \/ CreateUsersStart(p)
        \/ CreateUsersItem(p)

Init == WalletInit /\ GateInit /\ CodecIdle /\ RefIdle

InitCodec == WalletInit /\ GateInit /\ CodecInit /\ RefIdle

InitRef == WalletInit /\ GateInit /\ CodecIdle /\ RefInit

Next ==
    \E c \in Callers :
        \/ CreditCommit(c)
        \/ DebitRead(c)
        \/ DebitCommit(c)
        \/ TxAbort(c)

Spec == Init /\ [][Next]_vars

(* The ledger with its readers: every caller runs one operation of
   WalletService, a write or a read *)
NextLedger ==
    \E c \in Callers :
        \/ CreditCommit(c)
        \/ DebitRead(c)
        \/ DebitCommit(c)
        \/ TxAbort(c)
        \/ GetBalance(c)
        \/ GetTransactions(c)
        \/ GetTransactionByReference(c)

SpecLedger == Init /\ [][NextLedger]_vars

SpecGate == Init /\ [][NextGate]_vars

SpecReplay == Init /\ [][NextReplay]_vars

(* The steps the server takes for a request on its own: every await of the
   middleware chain and the controller resolves, every emitted event is handled *)
Handle(r) ==
    \/ AcquireLock(r)
    \/ Recheck(r)
    \/ GateCredit(r)
    \/ GateDebitRead(r)
    \/ GateDebitCommit(r)
    \/ CacheAndRespond(r)
    \/ CleanupOnFinish(r)
    \/ CleanupOnClose(r)
    \/ FinishUnsent(r)

(* SpecGate where the server keeps serving live requests, redis expires
   lock keys, and a caller told Conflict keeps retrying *)
SpecGateLive ==
    /\ SpecGate
    /\ \A r \in Reqs : WF_vars(Handle(r)) /\ WF_vars(Retry(r))
    /\ \A k \in IdemKeys : WF_vars(LockExpire(k))

SpecCodec == InitCodec /\ [][NextCodec]_vars

SpecRef == InitRef /\ [][NextRef]_vars

SpecHook == InitRef /\ [][NextHook]_vars

InitCycle == WalletInit /\ GateInit /\ CodecIdle /\ CycleInit

SpecCycle == InitCycle /\ [][NextCycle]_vars

InitAnyGraph == WalletInit /\ GateInit /\ CodecIdle /\ AnyGraphInit

(* One setReferrer call on any graph; every findUnique of the walk resolves *)
SpecWalk ==
    /\ InitAnyGraph /\ [][NextWalk]_vars
    /\ \A p \in Tasks : WF_vars(WalkStep(p))

-----------------------------------------------------------------------------
(* Helpers of the properties *)

TxnsOf(k) == {i \in 1..Len(txns) : WalletExists(k) /\ txns[i].walletId = wallets[k].id}

Succeeded(op) == {c \in Callers : call[c].pc = "ok" /\ call[c].op = op}

(* Is there an order in which the operations S (indices into txns) run one
   after the other from balance bal, each debit passing debitWallet's
   balance check, and end at balance final? *)
RECURSIVE SerialRun(_, _, _)
SerialRun(bal, S, final) ==
    IF S = {} THEN bal = final
    ELSE \E i \in S :
            /\ txns[i].type = "DEBIT" => bal >= 0 - txns[i].amount
            /\ SerialRun(bal + txns[i].amount, S \ {i}, final)

(* C1: every wallet's balance equals the signed sum of the amounts of its
   transaction records, in every reachable state; a wallet without a row has
   no balance and no record. *)
BalanceEqualsLedgerSum ==
    \A k \in WalletKeys :
        /\ WalletExists(k) => wallets[k].balance = SumAmounts(txns, wallets[k].id)
        /\ ~WalletExists(k) => wallets[k].balance = 0 /\ TxnsOf(k) = {}

(* C1 witness: a wallet that holds both a committed credit and a committed
   debit while another debit is between its read and its write. *)
LedgerWithCreditAndDebit ==
    \E k \in WalletKeys :
        /\ \E i \in TxnsOf(k) : txns[i].type = "CREDIT"
        /\ \E i \in TxnsOf(k) : txns[i].type = "DEBIT"
        /\ \E c \in Callers : call[c].pc = "debit_write" /\ call[c].key = k

(* C2: no interleaving of debits overdraws a wallet: the balance is never
   negative. *)
BalanceNeverNegative ==
    \A k \in WalletKeys : wallets[k].balance >= 0

(* C3: no lost update: every credit that returned has its record, and the
   balance of every wallet is the one some serial execution of its committed
   operations produces (each debit of that execution passing its check). *)
SerialExecutionBalance ==
    /\ Cardinality(Succeeded("credit"))
         = Cardinality({i \in 1..Len(txns) : txns[i].type = "CREDIT"})
    /\ \A k \in WalletKeys : SerialRun(0, TxnsOf(k), wallets[k].balance)

-----------------------------------------------------------------------------
(* Idempotency gate: helpers of the properties *)

(* The requests that committed a ledger operation under key k *)
KeyRuns(k) == {r \in Reqs : req[r].key = k /\ req[r].txn # 0}

(* The request was answered with the cached result *)
IsReplay(r) == req[r].pc = "done" /\ "transaction" \in DOMAIN req[r].resp

(* The request committed a ledger operation and has written its response *)
IsExecuted(r) == req[r].txn # 0 /\ req[r].pc \in {"finish", "close", "done"}

WalletKeyOf(walletId) == CHOOSE k \in WalletKeys : wallets[k].id = walletId

(* Endpoint and body of a request: kept for a replay, read back from the
   committed transaction for an executed request *)
PayloadOf(r) ==
    IF req[r].txn = 0 THEN <<req[r].ep, req[r].body>>
    ELSE LET t == txns[req[r].txn] IN
         <<IF t.type = "CREDIT" THEN "credit" ELSE "debit",
           [user |-> WalletKeyOf(t.walletId)[1], cur |-> WalletKeyOf(t.walletId)[2],
            amount |-> IF t.amount < 0 THEN 0 - t.amount ELSE t.amount]>>

(* C4: for every idempotency key the guarded ledger operation commits at most
   once, and every other finished request with the key got the cached result
   or Conflict. Stated for the runs in which no lock key expired, where the
   lock is all that the gate relies on. *)
AtMostOncePerKey ==
    ~ttlExpired =>
        \A k \in IdemKeys :
            /\ Cardinality(KeyRuns(k)) <= 1
            /\ \A r \in Reqs :
                  (req[r].pc = "done" /\ req[r].key = k /\ req[r].txn = 0) =>
                      \/ IsReplay(r)
                      \/ req[r].resp \in {ErrorResponse("Conflict"),
                                          ErrorResponse("ValidationError"),
                                          ErrorResponse("NotFound"),
                                          ErrorResponse("InsufficientBalance"),
                                          ErrorResponse("InternalError")}

(* C5: requests to the credit endpoint with the same idempotency key and the
   same payload leave exactly one transaction record, and the replayed
   response is identical to the response of the request that executed. *)
SameKeySameResponse ==
    \A r1, r2 \in Reqs :
        (/\ IsExecuted(r1) /\ IsReplay(r2)
         /\ req[r1].key = req[r2].key
         /\ PayloadOf(r1)[1] = "credit"
         /\ PayloadOf(r1) = PayloadOf(r2))
        => /\ req[r1].resp = req[r2].resp
           /\ Cardinality(KeyRuns(req[r1].key)) = 1

-----------------------------------------------------------------------------
(* Codec properties *)

(* C9: decoding the code generated for a user id gives the id back, and no
   other sampled id has the same code. *)
CodecRoundTrip ==
    (codec.pc = "decoded" /\ codec.userId # 0) =>
        /\ ~codec.out.threw
        /\ codec.out.value = codec.userId
        /\ \A other \in IdSamples :
              generateReferralCode(other) = codec.code => other = codec.userId

(* C9 witness: an id of the top of the range has been generated and decoded *)
RoundTripOfLargeId ==
    codec.pc = "decoded" /\ codec.userId = 10000000 /\ Len(codec.code) = 5

(* C10: a string that does not match R[0-9A-Za-z]+ does not decode: the
   decoder throws. *)
MalformedCodeThrows ==
    (codec.pc = "decoded" /\ codec.userId = 0 /\ ~MatchesCodeFormat(codec.code))
        => codec.out.threw

(* Following referrerId pointers from u for n steps: the user reached, 0
   once a null referrerId ends the chain *)
RECURSIVE Ancestor(_, _)
Ancestor(u, n) ==
    IF n = 0 \/ u = 0 THEN u ELSE Ancestor(referrer[u], n - 1)

(* C6: the referrer graph is acyclic in every reachable state: every chain of
   referrerId pointers ends at a user without a referrer, so no user is
   reachable from itself. *)
ReferrerGraphAcyclic ==
    \A u \in UserIds : Ancestor(u, MaxUsers) = 0

(* C7: once a user's referrerId is non-null no step of the system replaces
   or clears it. *)
ReferrerIdImmutable ==
    [][\A u \in UserIds : referrer[u] # 0 => referrer'[u] = referrer[u]]_vars

(* The setReferrer calls that assigned a referrer to user u *)
AssignedBy(u) ==
    {p \in Tasks : /\ task[p].kind = "setReferrer"
                   /\ task[p].pc = "done"
                   /\ task[p].result = "ok"
                   /\ task[p].user = u}

(* C8: of the setReferrer calls for one user, concurrent ones included, at
   most one assigns a referrer, and its assignment stays; a call that does
   not assign because the referrer is set ends with Conflict. *)
SetReferrerAtMostOnce ==
    \A u \in UserIds :
        /\ Cardinality(AssignedBy(u)) <= 1
        /\ \A p \in AssignedBy(u) : referrer[u] = task[p].ref

(* The step is debitWallet's read by caller c, and the transaction did not
   fail in storage *)
DebitReadStep(c) ==
    /\ call[c].pc = "idle"
    /\ call'[c].op = "debit"
    /\ call'[c].error # "InternalError"

(* C11: debitWallet with an amount greater than the balance of the wallet
   fails with InsufficientBalance, and a debit that fails so leaves every
   wallet balance and the transaction log as they were. *)
OverdrawRejected ==
    [][\A c \in Callers :
          DebitReadStep(c) =>
             LET k == call'[c].key
                 a == call'[c].amount
             IN /\ (WalletExists(k) /\ wallets[k].balance < a)
                      <=> call'[c].error = "InsufficientBalance"
                /\ call'[c].error = "InsufficientBalance"
                      => /\ call'[c].pc = "failed"
                         /\ wallets' = wallets
                         /\ txns' = txns]_vars

(* C11 witness: a debit of MaxAmount against a wallet holding 1 has failed
   with InsufficientBalance and the wallet still holds 1 *)
OverdrawAttemptFailed ==
    \E c \in Callers :
        /\ call[c].error = "InsufficientBalance"
        /\ call[c].amount = MaxAmount
        /\ wallets[call[c].key].balance = 1

(* C12: a wallet row appears only in a step of creditWallet, with the
   credited amount as its balance and one CREDIT record, its first; a debit
   of an absent wallet fails with NotFound and creates nothing; a row that
   exists is never removed. *)
WalletLifecycle ==
    [][/\ \A k \in WalletKeys :
            WalletExists(k) => wallets'[k].id = wallets[k].id
       /\ \A k \in WalletKeys :
            (~WalletExists(k) /\ wallets'[k].id # 0) =>
               /\ \E c \in Callers : /\ call[c].pc = "idle"
                                     /\ call'[c].op = "credit"
                                     /\ call'[c].pc = "ok"
               /\ txns' = Append(txns, txns'[Len(txns')])
               /\ txns'[Len(txns')].type = "CREDIT"
               /\ txns'[Len(txns')].walletId = wallets'[k].id
               /\ txns'[Len(txns')].amount = wallets'[k].balance
               /\ \A i \in 1..Len(txns) : txns[i].walletId # wallets'[k].id
       /\ \A c \in Callers :
            (DebitReadStep(c) /\ ~WalletExists(call'[c].key)) =>
               /\ call'[c].pc = "failed"
               /\ call'[c].error = "NotFound"
               /\ wallets' = wallets
               /\ txns' = txns]_vars

(* C12 witness: a first credit has created a wallet and a debit of another,
   absent wallet has failed with NotFound *)
WalletCreatedAndDebitNotFound ==
    /\ \E k \in WalletKeys : WalletExists(k)
    /\ \E c \in Callers : /\ call[c].error = "NotFound"
                          /\ ~WalletExists(call[c].key)

(* The values the internalNotes column takes *)
NoteValues == {InternalNotes(n) : n \in ServiceNames}

(* The log with the internalNotes of its rows replaced by notes[i] *)
WithNotes(log, notes) ==
    [i \in 1..Len(log) |-> [log[i] EXCEPT !.internalNotes = notes[i]]]

(* C20: two ledgers that differ only in the internalNotes of their rows give
   the same getTransactions result for every user, currency filter, page and
   page size, while getTransactionByReference returns the internalNotes of
   the row it finds. *)
InternalNotesNotExposed ==
    /\ \A notes \in [1..Len(txns) -> NoteValues] :
         \A userId \in WalletUsers, currency \in {"", "points"},
            page \in 1..2, limit \in 1..2 :
              getTransactions(WithNotes(txns, notes), userId, currency, page, limit)
                 = getTransactions(txns, userId, currency, page, limit)
    /\ \A i \in 1..Len(txns) :
         LET k == CHOOSE j \in WalletKeys : wallets[j].id = txns[i].walletId
             found == getTransactionByReference(SubSeq(txns, 1, i), k[2],
                                                txns[i].type, <<"ref">>, k[1])
         IN found.id = i /\ found.internalNotes = txns[i].internalNotes

(* C20 witness: the ledger holds a row written with a service name and a
   row written without one *)
LedgerWithAndWithoutNotes ==
    /\ \E i \in 1..Len(txns) : txns[i].internalNotes # <<>>
    /\ \E i \in 1..Len(txns) : txns[i].internalNotes = <<>>

(* The credentials authenticateService must reject: a missing header, a
   name outside the allow-list, or a key that is not the registry's key for
   the name *)
BadCredentials(apiKey, name) ==
    \/ apiKey = ""
    \/ name = ""
    \/ name \notin AllowedServices
    \/ name \notin DOMAIN ServiceApiKeys
    \/ ServiceApiKeys[name] # apiKey

(* C13: a request with bad credentials is answered Unauthorized and nothing
   else happens to it: it is never given a key to lock, holds no lock, gets
   no cached result and commits no ledger transaction. *)
UnauthorizedNeverProceeds ==
    \A r \in Reqs :
        (req[r].pc # "new" /\ BadCredentials(req[r].apiKey, req[r].name)) =>
            /\ req[r].pc = "done"
            /\ req[r].resp = ErrorResponse("Unauthorized")
            /\ req[r].key = ""
            /\ req[r].txn = 0
            /\ \A k \in IdemKeys : lock[k] # r

(* C13 witness: one request was rejected for a name outside the allow-list
   with that name's registry key, while another request holds a lock *)
RogueServiceRejected ==
    /\ \E r \in Reqs : /\ req[r].pc = "done"
                       /\ req[r].name = "rogue-service"
                       /\ req[r].apiKey = "key-r"
    /\ \E r \in Reqs : req[r].pc = "ledger" /\ lock[req[r].key] = r

(* The request has taken the lock and its controller or response is under way *)
HoldsLock(r) == req[r].pc \in {"ledger", "debit_write", "cache", "finish"}

(* C15: a request that finds the lock taken goes to the wait; from the wait
   its one next step ends it, with the cached result or with Conflict, and
   changes neither the lock, the cache nor the ledger; and it does get there. *)
LockLoserRechecksOnce ==
    /\ [][\A r \in Reqs :
            /\ (req[r].pc = "acquire" /\ lock[req[r].key] # 0
                  /\ req'[r].pc # "acquire")
                 => (req'[r].pc = "wait" /\ lock' = lock /\ txns' = txns)
            /\ (req[r].pc = "wait" /\ req'[r] # req[r])
                 => /\ req'[r].pc = "done"
                    /\ req'[r].txn = 0
                    /\ IF Cached(req[r].key)
                       THEN req'[r].resp = cache[req[r].key]
                       ELSE req'[r].resp = ErrorResponse("Conflict")
                    /\ lock' = lock /\ cache' = cache /\ txns' = txns
                    /\ wallets' = wallets]_vars
    /\ \A r \in Reqs : (req[r].pc = "wait") ~> (req[r].pc = "done")

(* C15 witness: a request waited and was told Conflict while the request
   that took the lock before it still holds the lock *)
LoserToldConflict ==
    \E r \in Reqs, holder \in Reqs :
        /\ r # holder
        /\ req[r].pc = "done" /\ req[r].resp = ErrorResponse("Conflict")
        /\ lock[req[r].key] = holder
        /\ HoldsLock(holder)

(* C16: a request that has acquired the lock eventually runs cleanupLock,
   whatever way it ends: success, an error, or the client disconnecting
   (a request that dies is not an exit path). *)
HolderEventuallyReleases ==
    \A r \in Reqs : HoldsLock(r) ~> (req[r].released \/ req[r].pc = "dead")

(* The caller of request r keeps asking for key k: the request is at the
   lock, in the wait, or was told Conflict *)
Retrying(r, k) ==
    /\ req[r].key = k
    /\ \/ req[r].pc \in {"acquire", "wait"}
       \/ req[r].pc = "done" /\ req[r].resp = ErrorResponse("Conflict")

(* The request got past the gate: it took the lock, or it was given the
   result some other request cached *)
PastGate(r) ==
    \/ req[r].pc \in {"ledger", "debit_write", "cache", "finish", "close", "dead"}
    \/ req[r].pc = "done" /\ req[r].resp # ErrorResponse("Conflict")

(* Lock k is held by a request that has died, and no result is cached *)
DeadHolder(k) ==
    /\ lock[k] # 0
    /\ req[lock[k]].pc = "dead"
    /\ ~Cached(k)

(* C17: when the holder of lock k has died without a cached result, the
   key does not stay locked by it, and a caller that keeps retrying with k
   eventually gets past the gate. *)
CrashedLockRecovers ==
    /\ \A k \in IdemKeys : DeadHolder(k) ~> ~DeadHolder(k)
    /\ \A r \in Reqs :
          (\E k \in IdemKeys : DeadHolder(k) /\ Retrying(r, k)) ~> PastGate(r)

(* C17 witness: the holder died with the lock, the lock expired, and another
   request with the same key has taken the lock and committed *)
RetrierExecutedAfterCrash ==
    \E dead \in Reqs, r \in Reqs :
        /\ req[dead].pc = "dead" /\ req[dead].txn = 0
        /\ req[r].key = req[dead].key
        /\ req[r].pc = "cache"
        /\ lock[req[r].key] = r
        /\ ttlExpired

(* userId is reachable from candidate by following referrerId pointers, or
   is the candidate itself *)
WouldCycle(userId, candidate) ==
    \/ candidate = userId
    \/ \E n \in 1..MaxUsers : Ancestor(candidate, n) = userId

(* The last entry of the failed list, if the step appended one *)
NewFailure(t, u) ==
    IF Len(u.failed) = Len(t.failed) + 1 THEN u.failed[Len(u.failed)] ELSE <<0, 0, "">>

(* C14: on an acyclic graph checkCircularReference(userId, candidate)
   rejects exactly when candidate is userId or userId is reachable from
   candidate: a call that is rejected as circular would have closed a cycle,
   a call that goes on to the update would not, and the graph stays acyclic. *)
CycleCheckExact ==
    /\ []ReferrerGraphAcyclic
    /\ [][\A p \in Tasks :
            LET t == task[p]
                u == task'[p]
            IN /\ (t.kind = "setReferrer" /\ t.result = "none"
                     /\ u.result = "CircularReference")
                    => WouldCycle(t.user, t.ref)
               /\ NewFailure(t, u)[3] = "Circular reference detected"
                    => WouldCycle(NewFailure(t, u)[1], NewFailure(t, u)[2])
               /\ (t.pc \in {"find_referrer", "walk"} /\ u.pc = "update")
                    => ~WouldCycle(u.user, u.ref)]_vars

(* C14 witness: with the chain 3 -> 2 -> 1, a batch has had the pair that
   gives 1 the referrer 3 rejected as circular and the pair that gives the
   unrelated user 4 the referrer 3 applied *)
ChainRejectedUnrelatedAccepted ==
    /\ referrer[3] = 2 /\ referrer[2] = 1 /\ referrer[1] = 0 /\ referrer[4] = 3
    /\ \E p \in Tasks :
          /\ task[p].pc = "done"
          /\ task[p].failed = << <<1, 3, "Circular reference detected">> >>
          /\ task[p].updated = << <<4, 3>> >>

(* The webhook requests of one event *)
SameEvent(h) ==
    {g \in hooks : /\ g.event = h.event
                   /\ g.referrerId = h.referrerId
                   /\ g.userId = h.userId}

(* C18: a referral.created request is sent only in the step that persists
   the referrerId and makes setReferrer return, never by a setReferrer that
   fails; every event has a request for every configured URL whatever
   became of the others; and the completion of a request, failed or not,
   changes neither the graph nor the outcome of any call. *)
WebhookDecoupled ==
    /\ [](\A h \in hooks : {g.url : g \in SameEvent(h)} = WebhookUrls)
    /\ [][/\ \A h \in hooks' \ hooks :
               h.status = "sent" =>
                  /\ h.event = "referral.created"
                  /\ referrer'[h.userId] = h.referrerId
                  /\ referrer[h.userId] # h.referrerId
                       \/ \E p \in Tasks : task[p].pc = "update"
                  /\ \E p \in Tasks : /\ task[p].pc = "update"
                                      /\ task'[p].result = "ok"
                                      /\ task'[p].user = h.userId
                                      /\ task'[p].ref = h.referrerId
          /\ \A p \in Tasks :
               (task[p].result = "none" /\ task'[p].result \notin {"none", "ok"})
                  => hooks' = hooks
          /\ (\E h \in hooks \ hooks' : h.status = "sent")
                  => /\ referrer' = referrer
                     /\ task' = task]_vars

(* C18 witness: of the two requests of one referral.created event one has
   failed and one was delivered, the assignment is in place and the call
   that made it returned the updated user *)
OneHookFailedAssignmentKept ==
    \E h \in hooks, g \in hooks :
        /\ h.event = "referral.created" /\ g \in SameEvent(h)
        /\ h.status = "failed" /\ g.status = "delivered"
        /\ referrer[h.userId] = h.referrerId
        /\ \E p \in Tasks : /\ task[p].result = "ok"
                            /\ task[p].user = h.userId

(* The step settles one pair of the batch of task p *)
SettlesItem(t, u) ==
    /\ t.kind = "updateReferrers"
    /\ t.pc \in {"item", "walk", "update"}
    /\ u.left = t.left - 1

(* C19: updateReferrers settles every pair in exactly one of the lists
   updated and failed, failed with a reason; a pair enters updated exactly
   in the step that persists its referrerId; a failing pair changes no
   referrerId and the loop goes on to the next pair; the batch returns with
   as many entries as it had pairs. *)
BatchPartialFailure ==
    /\ [](\A p \in Tasks :
            (task[p].kind = "updateReferrers" /\ task[p].pc = "done"
               /\ task[p].result = "none")
               => Len(task[p].updated) + Len(task[p].failed) = task[p].size)
    /\ [][\A p \in Tasks :
            LET t == task[p]
                u == task'[p]
                grewUpdated == u.updated # t.updated
                grewFailed == u.failed # t.failed
            IN (t.kind = "updateReferrers" /\ u # t) =>
                 /\ grewUpdated => u.updated = Append(t.updated, <<t.user, t.ref>>)
                 /\ grewFailed =>
                       /\ Len(u.failed) = Len(t.failed) + 1
                       /\ SubSeq(u.failed, 1, Len(t.failed)) = t.failed
                       /\ NewFailure(t, u)[3] # ""
                       /\ t.pc \in {"walk", "update"}
                            => (NewFailure(t, u)[1] = t.user /\ NewFailure(t, u)[2] = t.ref)
                       /\ referrer' = referrer
                 /\ SettlesItem(t, u) <=> (grewUpdated \/ grewFailed)
                 /\ ~(grewUpdated /\ grewFailed)
                 /\ grewUpdated => (t.pc = "update"
                                       /\ referrer' = [referrer EXCEPT ![t.user] = t.ref])
                 /\ referrer' # referrer => grewUpdated
                 /\ (SettlesItem(t, u) /\ t.left > 1) => u.pc = "item"]_vars

(* C19 witness: a batch of two pairs has returned with the second pair
   updated after the first had failed *)
BatchWithFailureThenUpdate ==
    \E p \in Tasks :
        /\ task[p].kind = "updateReferrers" /\ task[p].pc = "done"
        /\ Len(task[p].failed) = 1 /\ Len(task[p].updated) = 1
        /\ referrer[task[p].updated[1][1]] = task[p].updated[1][2]

(* The step is a read of WalletService by caller c *)
ReadStep(c) ==
    /\ call[c].pc = "idle"
    /\ call'[c].op \in {"getBalance", "getTransactions", "getTransactionByReference"}

(* C21: the map getBalance returns has, for every currency in which the
   user holds a wallet row, that wallet's balance, and reports 0 for a
   currency in which the user has no row. *)
BalanceReportsEveryWallet ==
    [][\A c \in Callers :
          (call[c].pc = "idle" /\ call'[c].op = "getBalance") =>
             \A cur \in Currencies :
                LET k == <<call'[c].key[1], cur>> IN
                IF WalletExists(k)
                THEN /\ cur \in DOMAIN call'[c].out
                     /\ call'[c].out[cur] = wallets[k].balance
                ELSE cur \in DOMAIN call'[c].out => call'[c].out[cur] = 0]_vars

(* C22: a read of WalletService changes no wallet row and no transaction
   record, and every step that changes one is the commit of a creditWallet
   or of a debitWallet. *)
LedgerMutatedOnlyByCreditDebit ==
    [][/\ \A c \in Callers : ReadStep(c) => (wallets' = wallets /\ txns' = txns)
       /\ (wallets' # wallets \/ txns' # txns) =>
             \E c \in Callers : /\ call[c].pc \in {"idle", "debit_write"}
                                 /\ call'[c].pc = "ok"
                                 /\ call'[c].op \in {"credit", "debit"}]_vars

(* C22 witness: getBalance has returned 0 for a currency in which the user
   has no row while the user holds another wallet, and no row was created *)
BalanceReadOfMissingCurrency ==
    \E c \in Callers :
        /\ call[c].op = "getBalance"
        /\ call[c].out["points"] = 0
        /\ ~WalletExists(<<call[c].key[1], "points">>)
        /\ WalletExists(<<call[c].key[1], "usdt">>)

(* C23: on any graph, cycles included, every turn of the walk that does not
   leave the loop visits a user not visited before, so the walk ends within
   as many turns as there are users; a walk that comes back to a visited
   user goes on to the update instead of rejecting; and every walk ends. *)
WalkTerminates ==
    /\ [](\A p \in Tasks :
            task[p].pc = "walk" => /\ task[p].cur \in task[p].visited
                                   /\ task[p].visited \subseteq UserIds)
    /\ [][\A p \in Tasks :
            LET t == task[p]
                u == task'[p]
            IN (t.pc = "walk" /\ u # t) =>
                 /\ u.pc = "walk" => /\ u.cur \notin t.visited
                                     /\ u.visited = t.visited \cup {u.cur}
                 /\ referrer[t.cur] \in t.visited =>
                       /\ u.result # "CircularReference"
                       /\ NewFailure(t, u)[3] # "Circular reference detected"
                       /\ u.pc = "update" \/ u.result = "InternalError"
                             \/ NewFailure(t, u)[3] = "Unknown error"]_vars
    /\ \A p \in Tasks : (task[p].pc = "walk") ~> (task[p].pc # "walk")

(* C23 witness: with the cycle 2 -> 3 -> 2 in place, setReferrer has given
   user 1 the referrer 2 *)
AcceptedDespiteOldCycle ==
    /\ referrer[2] = 3 /\ referrer[3] = 2 /\ referrer[1] = 2
    /\ \E p \in Tasks : /\ task[p].kind = "setReferrer"
                        /\ task[p].result = "ok"
                        /\ task[p].user = 1 /\ task[p].ref = 2

(* C24: setReferrer reports the first failure that applies, in the order
   unknown user (NotFound), referrer already set (Conflict), code that does
   not decode (BadRequest), decoded id of no user (NotFound), circular
   reference (BadRequest, written CircularReference); a call that fails
   changes no referrerId and sends no webhook. *)
SetReferrerFailureOrder ==
    [][\A p \in Tasks :
          LET t == task[p]
              u == task'[p]
          IN /\ (t.pc = "idle" /\ u.kind = "setReferrer") =>
                  /\ u.result = "NotFound" <=> ~UserExists(u.user)
                  /\ u.result = "Conflict"
                        <=> (UserExists(u.user) /\ referrer[u.user] # 0)
                  /\ u.result = "BadRequest"
                        <=> /\ UserExists(u.user) /\ referrer[u.user] = 0
                            /\ decodeReferralCode(u.code).threw
                  /\ u.pc = "find_referrer"
                        <=> /\ UserExists(u.user) /\ referrer[u.user] = 0
                            /\ ~decodeReferralCode(u.code).threw
                            /\ u.ref = decodeReferralCode(u.code).value
                  /\ u.result \in {"none", "NotFound", "Conflict", "BadRequest"}
             /\ (t.pc = "find_referrer" /\ u # t /\ u.result # "InternalError") =>
                  /\ u.result = "NotFound" <=> ~UserExists(t.ref)
                  /\ u.result = "CircularReference"
                        <=> (UserExists(t.ref) /\ t.ref = t.user)
                  /\ u.pc = "walk" <=> (UserExists(t.ref) /\ t.ref # t.user)
             /\ (t.kind = "setReferrer" /\ t.pc = "walk" /\ u.pc = "done"
                   /\ u.result # "InternalError") =>
                  /\ u.result = "CircularReference"
                  /\ referrer[t.cur] = t.user
             /\ (t.result = "none" /\ u.kind = "setReferrer"
                   /\ u.result \notin {"none", "ok"}) =>
                  /\ referrer' = referrer
                  /\ hooks' = hooks
                  /\ u.ref = 0]_vars

(* C24 witness: one call failed on a code that does not decode, another on
   a code that decodes to the id of no user, for users that exist and have
   no referrer; no referrerId is set and no webhook was sent *)
DecodeAndLookupFailures ==
    /\ \E p \in Tasks : /\ task[p].result = "BadRequest"
                        /\ task[p].code = <<"R", "!">>
    /\ \E p \in Tasks : /\ task[p].result = "NotFound"
                        /\ UserExists(task[p].user)
    /\ hooks = {}
    /\ \A u \in UserIds : referrer[u] = 0

(* The responses of a request whose validation or ledger operation failed *)
FailureResponses ==
    {ErrorResponse(e) : e \in {"ValidationError", "NotFound",
                                "InsufficientBalance", "InternalError"}}

(* Request r holds lock k and has been answered with a failure *)
FailedHolder(r, k) ==
    /\ req[r].pc = "finish" /\ req[r].key = k /\ lock[k] = r
    /\ req[r].resp \in FailureResponses

(* C25: the cache of a key is written only by a request whose credit or
   debit has committed, with the committed transaction; a request that is
   answered with a failure writes no cache; a request is answered from the
   cache only with such a result, and a request that finds no result goes on
   to the lock; and the lock of a request that failed does not stay its. *)
CachedOnlyAfterSuccess ==
    /\ [](\A k \in IdemKeys :
            Cached(k) => /\ cache[k].transaction \in 1..Len(txns)
                         /\ cache[k].message \in {SuccessMessage(ep) : ep \in Endpoints})
    /\ [][/\ \A k \in IdemKeys :
               cache'[k] # cache[k] =>
                  \E r \in Reqs : /\ req[r].pc = "cache" /\ req[r].key = k
                                   /\ req[r].txn \in 1..Len(txns)
                                   /\ req'[r].resp
                                        = SuccessResponse(req[r].txn, SuccessMessage(req[r].ep))
                                   /\ cache'[k]
                                        = CachedResult(req[r].txn, SuccessMessage(req[r].ep))
          /\ \A r \in Reqs :
               /\ (req[r].resp # req'[r].resp /\ req'[r].resp \in FailureResponses)
                     => (cache' = cache /\ req'[r].txn = 0)
               /\ (req[r].resp # req'[r].resp /\ "transaction" \in DOMAIN req'[r].resp)
                     => /\ req'[r].resp = cache[req'[r].key]
                        /\ req'[r].resp.transaction \in 1..Len(txns)
               /\ (req[r].pc \in {"new", "done"} /\ req'[r].pc \notin {"new", "done"})
                     => (req'[r].pc = "acquire" /\ ~Cached(req'[r].key))]_vars
    /\ \A r \in Reqs, k \in IdemKeys : FailedHolder(r, k) ~> (lock[k] # r)

(* C25 witness: a debit with key K failed with NotFound and has ended, no
   lock having expired; a credit with the same key has then committed and
   its result is cached *)
RetryAfterFailureExecuted ==
    \E r1 \in Reqs, r2 \in Reqs :
        /\ req[r1].pc = "done" /\ req[r1].resp = ErrorResponse("NotFound")
        /\ req[r1].released
        /\ req[r2].key = req[r1].key /\ req[r2].txn = 1
        /\ cache[req[r1].key] = CachedResult(1, SuccessMessage("credit"))
        /\ ~ttlExpired

(* C26: a request whose amount is not positive never reaches the
   controller: when it has the lock it is answered with the validation
   error, and no step of it changes a wallet row, a transaction record or
   the cache; every transaction record has a positive amount credited or
   debited. *)
NonPositiveAmountRejected ==
    /\ [](\A r \in Reqs :
            req[r].pc \in {"ledger", "debit_write", "cache"} => req[r].body.amount > 0)
    /\ [](\A i \in 1..Len(txns) :
            IF txns[i].type = "CREDIT" THEN txns[i].amount > 0 ELSE txns[i].amount < 0)
    /\ [][\A r \in Reqs :
            (req[r].pc \in {"acquire", "wait"} /\ req[r].body.amount <= 0
               /\ req'[r] # req[r]) =>
                 /\ wallets' = wallets /\ txns' = txns /\ cache' = cache
                 /\ req'[r].txn = 0
                 /\ req'[r].pc \in {"acquire", "wait", "finish", "done"}
                 /\ (req[r].pc = "acquire" /\ lock[req[r].key] = 0
                       /\ req'[r].pc # "acquire")
                      => /\ req'[r].pc = "finish"
                         /\ req'[r].resp = ErrorResponse("ValidationError")]_vars

(* C26 witness: a request has been answered with the validation error and
   has released its lock; the ledger and the cache are empty *)
InvalidAmountAnswered ==
    /\ \E r \in Reqs : /\ req[r].pc = "done"
                       /\ req[r].resp = ErrorResponse("ValidationError")
                       /\ req[r].released
    /\ txns = <<>>
    /\ \A k \in WalletKeys : ~WalletExists(k)
    /\ \A k \in IdemKeys : ~Cached(k) /\ lock[k] = 0

(* The controller of request r is running: between the lock's acquisition
   and the response *)
InGuarded(r) == req[r].pc \in {"ledger", "debit_write", "cache"}

(* C27: as long as no lock key has expired, at most one request per
   idempotency key is inside the guarded operation. *)
MutualExclusionPerKey ==
    ~ttlExpired =>
        \A r1, r2 \in Reqs :
            (InGuarded(r1) /\ InGuarded(r2) /\ req[r1].key = req[r2].key) => r1 = r2

(* C28: a step of a request that deletes the lock of a key is a step of the
   request that set it. *)
LockDeletedOnlyByHolder ==
    [][\A k \in IdemKeys, q \in Reqs :
          (lock[k] # 0 /\ lock'[k] = 0 /\ req'[q] # req[q]) => q = lock[k]]_vars

(* C29: a request is answered from the cache in a step that changes no
   wallet row, no transaction record, no cached result and no lock, and
   commits nothing; and a request that arrives with a key whose result is
   cached is answered with that result in its first step, whatever its
   body, endpoint and service. *)
ReplayHasNoEffect ==
    [][\A r \in Reqs :
          /\ (req[r].resp # req'[r].resp /\ "transaction" \in DOMAIN req'[r].resp) =>
                /\ wallets' = wallets /\ txns' = txns
                /\ cache' = cache /\ lock' = lock
                /\ req'[r].txn = 0
                /\ req'[r].pc = "done"
                /\ req'[r].resp = cache[req'[r].key]
          /\ (req[r].pc = "new" /\ req'[r].key # "" /\ Cached(req'[r].key)) =>
                req'[r].resp = cache[req'[r].key]]_vars

(* C29 witness: a debit request of order-service with an amount that is not
   positive was answered with the result of a credit of academy-service *)
ForeignInvalidRequestReplayed ==
    \E r \in Reqs :
        /\ IsReplay(r)
        /\ req[r].ep = "debit" /\ req[r].body.amount <= 0
        /\ req[r].name = "order-service"
        /\ txns[req[r].resp.transaction].type = "CREDIT"
        /\ txns[req[r].resp.transaction].internalNotes = <<"via", "academy-service">>
        /\ Len(txns) = 1

(* C30: a step of creditWallet or debitWallet changes the row of at most
   one wallet, keeps every transaction record there is, and appends at most
   one record, of the wallet whose row it changed; a call that fails changes
   nothing; wallet ids tell wallets apart. *)
WalletIsolation ==
    /\ [](\A j, k \in WalletKeys :
            (WalletExists(j) /\ WalletExists(k) /\ wallets[j].id = wallets[k].id)
               => j = k)
    /\ [][/\ Len(txns') >= Len(txns)
          /\ SubSeq(txns', 1, Len(txns)) = txns
          /\ (wallets' # wallets \/ txns' # txns) =>
                \E k \in WalletKeys :
                   /\ \A j \in WalletKeys \ {k} : wallets'[j] = wallets[j]
                   /\ wallets'[k] # wallets[k]
                   /\ txns' = Append(txns, txns'[Len(txns')])
                   /\ txns'[Len(txns')].walletId = wallets'[k].id
                   /\ \A c \in Callers :
                         call[c].pc = "debit_write" /\ call'[c].pc = "ok"
                            => k = call[c].key
          /\ \A c \in Callers :
                (call[c].pc \in {"idle", "debit_write"} /\ call'[c].pc = "failed")
                   => (wallets' = wallets /\ txns' = txns)]_vars

(* C30 witness: two wallets of one user hold a credit each, and a debit of
   one of them has failed, leaving both balances as credited *)
TwoWalletsOneDebitFailed ==
    \E j \in WalletKeys, k \in WalletKeys :
        /\ j # k /\ j[1] = k[1]
        /\ wallets[j].balance = MaxAmount /\ wallets[k].balance = 1
        /\ Len(txns) = 2
        /\ \E c \in Callers : /\ call[c].error = "InsufficientBalance"
                              /\ call[c].key = k

====
